---- MODULE Spec2Model ----
(***************************************************************************)
(* The pgen2 parser engine (src/pgen2/parse.py): a table-driven pushdown   *)
(* automaton.  A Parser owns a stack of frames (dfa, state, node) and a    *)
(* rootnode; setup() resets them and addtoken() advances the automaton by  *)
(* shift / push / pop, handing every finished node to the convert callback.*)
(*                                                                         *)
(* Python values are encoded as follows.  None is the empty tuple and a    *)
(* present value x is the one-element tuple <<x>>; so a leaf's children    *)
(* (None) is <<>> and a nonterminal's empty child list ([]) is <<<<>>>>.   *)
(* A reference to a DFA of the grammar is the nonterminal number that keys *)
(* it in grammar.dfas.  A PNode carries an extra field id, the identity of *)
(* the Python object (creation order since setup).                         *)
(***************************************************************************)
EXTENDS Integers, Sequences, FiniteSets, TLC

VARIABLES
    grammar,   \* the Grammar tables shared by all Parser instances
    convert,   \* convert[p]: the conversion callback of parser p
    ready,     \* ready[p]: setup() has run, so self.stack / self.rootnode exist
    stack,     \* stack[p]: self.stack, a sequence of frames, top last
    rootnode,  \* rootnode[p]: self.rootnode (None or a node)
    obs        \* obs[p]: what the caller of parser p has observed (history)

vars == <<grammar, convert, ready, stack, rootnode, obs>>

\* ------------------------------------------------------------------ bounds
\* addtoken calls made on one parser between two setups
MaxTokens == 5
\* the same, when two parsers run interleaved
MaxTokensTwo == 2

\* ------------------------------------------------------------- Python data
None == <<>>
Some(x) == <<x>>

\* Label types below NT_OFFSET are tokens, the others are nonterminals.
NT_OFFSET == 256

Procs == {1, 2}

Range(s) == {s[i] : i \in DOMAIN s}

Top(stk) == stk[Len(stk)]

PNode(id, typ, tok, children) ==
    [id |-> id, typ |-> typ, tok |-> tok, children |-> children]

\* ---------------------------------------------------------------- grammars
\* Grammar tables as pgen emits them: labels[ilabel] is a token type or a
\* nonterminal number; dfas[nt] = (states, first); states[s] is the ordered
\* list of arcs (ilabel, next state); the accept marker (0, s) comes last.
\* Labels 1, 2, 3 are the tokens 'a', 'b', 'c' (types 11, 12, 13).

\* S -> 'a' S 'b' | 'c'
GrammarS ==
    [name   |-> "S",
     start  |-> 256,
     labels |-> (0 :> 0) @@ (1 :> 11) @@ (2 :> 12) @@ (3 :> 13) @@ (4 :> 256),
     dfas   |-> (256 :>
        [states |-> (0 :> << <<1, 1>>, <<3, 2>> >>) @@
                    (1 :> << <<4, 3>> >>) @@
                    (2 :> << <<0, 2>> >>) @@
                    (3 :> << <<2, 2>> >>),
         first  |-> {1, 3}])]

\* S -> A ;  A -> 'a' S 'b' | 'c'     (S is a pure pass-through)
GrammarPass ==
    [name   |-> "Pass",
     start  |-> 256,
     labels |-> (0 :> 0) @@ (1 :> 11) @@ (2 :> 12) @@ (3 :> 13) @@
                (4 :> 256) @@ (5 :> 257),
     dfas   |-> (256 :>
        [states |-> (0 :> << <<5, 1>> >>) @@
                    (1 :> << <<0, 1>> >>),
         first  |-> {1, 3}]) @@
                (257 :>
        [states |-> (0 :> << <<1, 1>>, <<3, 2>> >>) @@
                    (1 :> << <<4, 3>> >>) @@
                    (2 :> << <<0, 2>> >>) @@
                    (3 :> << <<2, 2>> >>),
         first  |-> {1, 3}])]

\* S -> A 'c' ['b'] ;  A -> 'a' ['b']   (accepting states with a continuation)
GrammarOpt ==
    [name   |-> "Opt",
     start  |-> 256,
     labels |-> (0 :> 0) @@ (1 :> 11) @@ (2 :> 12) @@ (3 :> 13) @@
                (4 :> 256) @@ (5 :> 257),
     dfas   |-> (256 :>
        [states |-> (0 :> << <<5, 1>> >>) @@
                    (1 :> << <<3, 2>> >>) @@
                    (2 :> << <<2, 3>>, <<0, 2>> >>) @@
                    (3 :> << <<0, 3>> >>),
         first  |-> {1}]) @@
                (257 :>
        [states |-> (0 :> << <<1, 1>> >>) @@
                    (1 :> << <<2, 2>>, <<0, 1>> >>) @@
                    (2 :> << <<0, 2>> >>),
         first  |-> {1}])]

\* S -> 'a' S | 'c'     (right recursion: the stack grows with the input)
GrammarRight ==
    [name   |-> "Right",
     start  |-> 256,
     labels |-> (0 :> 0) @@ (1 :> 11) @@ (2 :> 12) @@ (3 :> 13) @@ (4 :> 256),
     dfas   |-> (256 :>
        [states |-> (0 :> << <<1, 1>>, <<3, 2>> >>) @@
                    (1 :> << <<4, 2>> >>) @@
                    (2 :> << <<0, 2>> >>),
         first  |-> {1, 3}])]

\* S -> 'a' P 'b' | 'c' ;  P -> S     (P is a pure pass-through; without it
\* the grammar is GrammarS)
GrammarMid ==
    [name   |-> "Mid",
     start  |-> 256,
     labels |-> (0 :> 0) @@ (1 :> 11) @@ (2 :> 12) @@ (3 :> 13) @@
                (4 :> 256) @@ (5 :> 257),
     dfas   |-> (256 :>
        [states |-> (0 :> << <<1, 1>>, <<3, 2>> >>) @@
                    (1 :> << <<5, 3>> >>) @@
                    (2 :> << <<0, 2>> >>) @@
                    (3 :> << <<2, 2>> >>),
         first  |-> {1, 3}]) @@
                (257 :>
        [states |-> (0 :> << <<4, 1>> >>) @@
                    (1 :> << <<0, 1>> >>),
         first  |-> {1, 3}])]

\* Tables with two applicable arcs in one state, in both orders:
\* S -> A 'b' | 'a' 'c' ;  A -> 'a' | B ;  B -> 'a'
\* S's state 0 lists the arc of A before the arc of 'a'; A's state 0 lists the
\* arc of 'a' before the arc of B.
GrammarAmb ==
    [name   |-> "Amb",
     start  |-> 256,
     labels |-> (0 :> 0) @@ (1 :> 11) @@ (2 :> 12) @@ (3 :> 13) @@
                (4 :> 256) @@ (5 :> 257) @@ (6 :> 258),
     dfas   |-> (256 :>
        [states |-> (0 :> << <<5, 1>>, <<1, 2>> >>) @@
                    (1 :> << <<2, 3>> >>) @@
                    (2 :> << <<3, 3>> >>) @@
                    (3 :> << <<0, 3>> >>),
         first  |-> {1}]) @@
                (257 :>
        [states |-> (0 :> << <<1, 1>>, <<6, 2>> >>) @@
                    (1 :> << <<0, 1>> >>) @@
                    (2 :> << <<0, 2>> >>),
         first  |-> {1}]) @@
                (258 :>
        [states |-> (0 :> << <<1, 1>> >>) @@
                    (1 :> << <<0, 1>> >>),
         first  |-> {1}])]

Grammars ==
    {GrammarS, GrammarPass, GrammarOpt, GrammarRight, GrammarMid, GrammarAmb}

\* The labels a caller may classify a token to: the token labels.
TokenLabels(g) ==
    {i \in DOMAIN g.labels : i # 0 /\ g.labels[i] < NT_OFFSET}

\* ------------------------------------------------------ conversion callback
\* The callbacks used: none supplied (identity), or one that discards every
\* node of one type and returns every other node unchanged.
\* A third kind replaces a nonterminal node that has exactly one child by that
\* child (the conversion lib2to3 uses to collapse pass-through nodes).
Converts ==
    {[kind |-> "identity", typ |-> 0],
     [kind |-> "discard", typ |-> 12],
     [kind |-> "discard", typ |-> 257],
     [kind |-> "collapse", typ |-> 0]}

\* self.convert(self.grammar, node): None, or the node to keep.
Convert(cv, g, node) ==
    IF cv.kind = "discard" /\ node.typ = cv.typ THEN None
    ELSE IF cv.kind = "collapse" /\ node.children # None
                                 /\ Len(node.children[1]) = 1
         THEN Some(node.children[1][1])
    ELSE Some(node)

\* --------------------------------------------------------- history records
Event(kind, node, kept, stk) ==
    [kind |-> kind, node |-> node, kept |-> kept, stack |-> stk]

\* Mutant of AppendChild: the child is inserted at the front of the list.
AppendChild_front(node, child) ==
    [node EXCEPT !.children = Some(<<child>> \o node.children[1])]

\* node.children.append(newnode)
AppendChild(node, child) ==
    [node EXCEPT !.children = Some(Append(node.children[1], child))]

Frame(dfa, state, node) == [dfa |-> dfa, state |-> state, node |-> node]

\* ------------------------------------------------- shift / push / pop
\* A machine m is [stack, rootnode, nextId, hist]: the parser's fields while a
\* call runs, the next object identity and the events so far.

\* Mutant of shift: the converted leaf is appended twice.
shift_twice(g, cv, m, typ, opaque, newstate) ==
    LET top     == Top(m.stack)
        newnode == PNode(m.nextId, typ, Some(opaque), None)
        conv    == Convert(cv, g, newnode)
        node    == IF conv # None
                   THEN AppendChild(AppendChild(top.node, conv[1]), conv[1])
                   ELSE top.node
        stk     == [m.stack EXCEPT ![Len(m.stack)] =
                       Frame(top.dfa, newstate, node)]
    IN  [m EXCEPT !.stack  = stk,
                  !.nextId = @ + 1,
                  !.hist   = @ \o << Event("convert", newnode, conv # None, m.stack),
                                     Event("shift", newnode, conv # None, stk) >>]

\* Parser.shift
shift(g, cv, m, typ, opaque, newstate) ==
    LET top     == Top(m.stack)
        newnode == PNode(m.nextId, typ, Some(opaque), None)
        conv    == Convert(cv, g, newnode)
        node    == IF conv # None THEN AppendChild(top.node, conv[1])
                   ELSE top.node
        stk     == [m.stack EXCEPT ![Len(m.stack)] =
                       Frame(top.dfa, newstate, node)]
    IN  [m EXCEPT !.stack  = stk,
                  !.nextId = @ + 1,
                  !.hist   = @ \o << Event("convert", newnode, conv # None, m.stack),
                                     Event("shift", newnode, conv # None, stk) >>]

\* Mutant of push: the new frame gets the current frame's node (node for
\* newnode).
push_samenode(m, typ, opaque, newdfa, newstate) ==
    LET top     == Top(m.stack)
        newnode == PNode(m.nextId, typ, Some(opaque), Some(<<>>))
        stk     == [m.stack EXCEPT ![Len(m.stack)] =
                       Frame(top.dfa, newstate, top.node)]
                   \o << Frame(newdfa, 0, top.node) >>
    IN  [m EXCEPT !.stack  = stk,
                  !.nextId = @ + 1,
                  !.hist   = @ \o << Event("push", newnode, TRUE, stk) >>]

\* Mutant of push: the arc's next state is not stored in the current frame.
push_nostate(m, typ, opaque, newdfa, newstate) ==
    LET newnode == PNode(m.nextId, typ, Some(opaque), Some(<<>>))
        stk     == m.stack \o << Frame(newdfa, 0, newnode) >>
    IN  [m EXCEPT !.stack  = stk,
                  !.nextId = @ + 1,
                  !.hist   = @ \o << Event("push", newnode, TRUE, stk) >>]

\* Mutant of push: the new frame is appended twice.
push_double(m, typ, opaque, newdfa, newstate) ==
    LET top     == Top(m.stack)
        newnode == PNode(m.nextId, typ, Some(opaque), Some(<<>>))
        stk     == [m.stack EXCEPT ![Len(m.stack)] =
                       Frame(top.dfa, newstate, top.node)]
                   \o << Frame(newdfa, 0, newnode), Frame(newdfa, 0, newnode) >>
    IN  [m EXCEPT !.stack  = stk,
                  !.nextId = @ + 1,
                  !.hist   = @ \o << Event("push", newnode, TRUE, stk) >>]

\* Parser.push
push(m, typ, opaque, newdfa, newstate) ==
    LET top     == Top(m.stack)
        newnode == PNode(m.nextId, typ, Some(opaque), Some(<<>>))
        stk     == Append([m.stack EXCEPT ![Len(m.stack)] =
                              Frame(top.dfa, newstate, top.node)],
                          Frame(newdfa, 0, newnode))
    IN  [m EXCEPT !.stack  = stk,
                  !.nextId = @ + 1,
                  !.hist   = @ \o << Event("push", newnode, TRUE, stk) >>]

\* Mutant of pop: the popped node is attached without being converted.
pop_noconvert(g, cv, m) ==
    LET popnode == Top(m.stack).node
        rest    == SubSeq(m.stack, 1, Len(m.stack) - 1)
        stk     == IF rest # <<>>
                   THEN [rest EXCEPT ![Len(rest)].node = AppendChild(@, popnode)]
                   ELSE rest
        root    == IF rest = <<>> THEN Some(popnode) ELSE m.rootnode
    IN  [m EXCEPT !.stack    = stk,
                  !.rootnode = root,
                  !.hist     = @ \o << Event("pop", popnode, TRUE, stk) >>]

\* Mutant of pop: the callback's answer is not tested, and the popped node is
\* attached when the callback discarded it.
pop_keepdiscarded(g, cv, m) ==
    LET popnode == Top(m.stack).node
        rest    == SubSeq(m.stack, 1, Len(m.stack) - 1)
        conv    == Convert(cv, g, popnode)
        newnode == IF conv # None THEN conv[1] ELSE popnode
        stk     == IF rest # <<>>
                   THEN [rest EXCEPT ![Len(rest)].node = AppendChild(@, newnode)]
                   ELSE rest
        root    == IF rest = <<>> THEN Some(newnode) ELSE m.rootnode
    IN  [m EXCEPT !.stack    = stk,
                  !.rootnode = root,
                  !.hist     = @ \o << Event("convert", popnode, conv # None, rest),
                                       Event("pop", popnode, conv # None, stk) >>]

\* Mutant of pop: every retained node is stored as the result, not only the
\* node of the last frame.
pop_rootalways(g, cv, m) ==
    LET popnode == Top(m.stack).node
        rest    == SubSeq(m.stack, 1, Len(m.stack) - 1)
        conv    == Convert(cv, g, popnode)
        stk     == IF conv # None /\ rest # <<>>
                   THEN [rest EXCEPT ![Len(rest)].node =
                            AppendChild(@, conv[1])]
                   ELSE rest
        root    == IF conv # None THEN conv ELSE m.rootnode
    IN  [m EXCEPT !.stack    = stk,
                  !.rootnode = root,
                  !.hist     = @ \o << Event("convert", popnode, conv # None, rest),
                                       Event("pop", popnode, conv # None, stk) >>]

\* Parser.pop
pop(g, cv, m) ==
    LET popnode == Top(m.stack).node
        rest    == SubSeq(m.stack, 1, Len(m.stack) - 1)
        conv    == Convert(cv, g, popnode)
        stk     == IF conv # None /\ rest # <<>>
                   THEN [rest EXCEPT ![Len(rest)].node =
                            AppendChild(@, conv[1])]
                   ELSE rest
        root    == IF conv # None /\ rest = <<>> THEN conv ELSE m.rootnode
    IN  [m EXCEPT !.stack    = stk,
                  !.rootnode = root,
                  !.hist     = @ \o << Event("convert", popnode, conv # None, rest),
                                       Event("pop", popnode, conv # None, stk) >>]

\* ----------------------------------------------------------------- addtoken
\* The outcome of one addtoken call: the machine it leaves, what the caller
\* sees (ret: "True", "False" or the exception raised; exc: the ParseError's
\* fields), the number of iterations of the outer loop and the top frame the
\* last iteration looked at.
Outcome(m, ret, exc, iters, final) ==
    [m |-> m, ret |-> ret, exc |-> exc, iters |-> iters, final |-> final]

\* ParseError(msg, typ, opaque)
ParseError(msg, typ, opaque) ==
    Some([msg |-> msg, type |-> typ, opaque |-> opaque])

\* Mutant of ArcApplies: the first set of a nonterminal arc is not consulted.
ArcApplies_tokenonly(g, arc, ilabel) ==
    ilabel = arc[1]

\* The two tests of the for loop on one arc: the arc's label is the token's
\* label, or the arc's label is a nonterminal with the token's label in its
\* first set.
ArcApplies(g, arc, ilabel) ==
    LET t == g.labels[arc[1]]
    IN  \/ ilabel = arc[1]
        \/ t >= NT_OFFSET /\ ilabel \in g.dfas[t].first

\* Mutant of FirstArc: the loop acts on the last applicable arc.
FirstArc_last(g, arcs, ilabel) ==
    LET hits == {i \in DOMAIN arcs : ArcApplies(g, arcs[i], ilabel)}
    IN  IF hits = {} THEN 0
        ELSE CHOOSE i \in hits : \A j \in hits : j <= i

\* The index of the first arc the for loop acts on; 0 when it falls through
\* to its else clause.
FirstArc(g, arcs, ilabel) ==
    LET hits == {i \in DOMAIN arcs : ArcApplies(g, arcs[i], ilabel)}
    IN  IF hits = {} THEN 0
        ELSE CHOOSE i \in hits : \A j \in hits : i <= j

\* Mutant of popAcceptOnly: the loop pops whenever the state has the accept
\* marker, also when the state has other arcs.
RECURSIVE popAcceptOnly_any(_, _, _, _, _)
popAcceptOnly_any(g, cv, m, iters, final) ==
    LET top    == Top(m.stack)
        states == g.dfas[top.dfa].states
    IN  IF <<0, top.state>> \in Range(states[top.state])
        THEN LET m2 == pop(g, cv, m)
             IN  IF m2.stack = <<>>
                 THEN Outcome(m2, "True", None, iters, final)
                 ELSE popAcceptOnly_any(g, cv, m2, iters, final)
        ELSE Outcome(m, "False", None, iters, final)

\* "Pop while we are in an accept-only state": the inner while loop.
RECURSIVE popAcceptOnly(_, _, _, _, _)
popAcceptOnly(g, cv, m, iters, final) ==
    LET top    == Top(m.stack)
        states == g.dfas[top.dfa].states
    IN  IF states[top.state] = << <<0, top.state>> >>
        THEN LET m2 == pop(g, cv, m)
             IN  IF m2.stack = <<>>
                 THEN Outcome(m2, "True", None, iters, final)
                 ELSE popAcceptOnly(g, cv, m2, iters, final)
        ELSE Outcome(m, "False", None, iters, final)

\* Mutant of addtokenLoop: after the pop of a frame with an accept marker the
\* stack is not tested, and the loop goes on.
RECURSIVE addtokenLoop_noemptytest(_, _, _, _, _, _, _)
addtokenLoop_noemptytest(g, cv, m, typ, opaque, ilabel, iters) ==
    IF m.stack = <<>>
    THEN Outcome(m, "IndexError", None, iters, None)
    ELSE
    LET top   == Top(m.stack)
        state == top.state
        arcs  == g.dfas[top.dfa].states[state]
        final == Some([dfa |-> top.dfa, state |-> state])
        i     == FirstArc(g, arcs, ilabel)
    IN  IF i # 0
        THEN LET ilab     == arcs[i][1]
                 newstate == arcs[i][2]
                 t        == g.labels[ilab]
             IN  IF ilabel = ilab
                 THEN IF t >= NT_OFFSET
                      THEN Outcome(m, "AssertionError", None, iters, final)
                      ELSE popAcceptOnly(g, cv,
                               shift(g, cv, m, typ, opaque, newstate),
                               iters, final)
                 ELSE addtokenLoop_noemptytest(g, cv,
                               push(m, t, opaque, t, newstate),
                               typ, opaque, ilabel, iters + 1)
        ELSE IF <<0, state>> \in Range(arcs)
             THEN addtokenLoop_noemptytest(g, cv, pop(g, cv, m),
                                           typ, opaque, ilabel, iters + 1)
             ELSE Outcome(m, "bad input",
                          ParseError("bad input", typ, opaque), iters, final)

\* The outer "while True" loop of Parser.addtoken.
RECURSIVE addtokenLoop(_, _, _, _, _, _, _)
addtokenLoop(g, cv, m, typ, opaque, ilabel, iters) ==
    IF m.stack = <<>>
    THEN Outcome(m, "IndexError", None, iters, None)
    ELSE
    LET top   == Top(m.stack)
        state == top.state
        arcs  == g.dfas[top.dfa].states[state]
        final == Some([dfa |-> top.dfa, state |-> state])
        i     == FirstArc(g, arcs, ilabel)
    IN  IF i # 0
        THEN LET ilab     == arcs[i][1]
                 newstate == arcs[i][2]
                 t        == g.labels[ilab]
             IN  IF ilabel = ilab
                 THEN IF t >= NT_OFFSET
                      THEN Outcome(m, "AssertionError", None, iters, final)
                      ELSE popAcceptOnly(g, cv,
                               shift(g, cv, m, typ, opaque, newstate),
                               iters, final)
                 ELSE addtokenLoop(g, cv, push(m, t, opaque, t, newstate),
                                   typ, opaque, ilabel, iters + 1)
        ELSE IF <<0, state>> \in Range(arcs)
             THEN LET m2 == pop(g, cv, m)
                  IN  IF m2.stack = <<>>
                      THEN Outcome(m2, "too much input",
                                   ParseError("too much input", typ, opaque),
                                   iters, final)
                      ELSE addtokenLoop(g, cv, m2, typ, opaque, ilabel,
                                        iters + 1)
             ELSE Outcome(m, "bad input",
                          ParseError("bad input", typ, opaque), iters, final)

\* ------------------------------------------------------------ the caller
\* The token a caller passes: its type comes from the label table, its payload
\* is the token's position in the input (every token object is distinct).
Token(g, ilabel, pos) ==
    [typ |-> g.labels[ilabel], opaque |-> pos, ilabel |-> ilabel]

ParseErrors == {"bad input", "too much input"}

\* The engine state of section 4.1, as the caller's history shows it.
Phase(isReady, rets) ==
    IF ~isReady THEN "uninitialized"
    ELSE IF Range(rets) \cap ParseErrors # {} THEN "failed"
    ELSE IF "True" \in Range(rets) THEN "done"
    ELSE "parsing"

NoCall ==
    [op |-> "new", tok |-> None, ret |-> "", exc |-> None, from |-> 0,
     iters |-> 0, final |-> None, before |-> <<>>]

NewObs ==
    [start |-> 0, fed |-> <<>>, rets |-> <<>>, hist |-> <<>>, nextId |-> 1,
     prev |-> "uninitialized", last |-> NoCall]

\* Parser.__init__: the grammar and the callback are bound, nothing else.
\* The parsers are constructed with the same grammar and the same callback.
Init ==
    /\ grammar \in Grammars
    /\ \E cv \in Converts : convert = [p \in Procs |-> cv]
    /\ ready = [p \in Procs |-> FALSE]
    /\ stack = [p \in Procs |-> <<>>]
    /\ rootnode = [p \in Procs |-> None]
    /\ obs = [p \in Procs |-> NewObs]

\* Mutant of Store: the attribute is a class attribute, shared by all parsers.
Store_shared(f, p, v) == [q \in DOMAIN f |-> v]

\* self.stack = ..., self.rootnode = ...: instance attributes of parser p.
Store(f, p, v) == [f EXCEPT ![p] = v]

\* Mutant of setup: the previous result is not cleared.
setup_keepsroot(p, start) ==
    LET s       == IF start = None THEN grammar.start ELSE start[1]
        newnode == PNode(1, s, None, Some(<<>>))
        stk     == << Frame(s, 0, newnode) >>
    IN  /\ stack' = Store(stack, p, stk)
        /\ ready' = Store(ready, p, TRUE)
        /\ obs' = [obs EXCEPT ![p] =
              [start |-> s, fed |-> <<>>, rets |-> <<>>,
               hist |-> << Event("setup", newnode, TRUE, stk) >>,
               nextId |-> 2,
               prev |-> Phase(ready[p], obs[p].rets),
               last |-> [NoCall EXCEPT !.op = "setup", !.tok = start,
                                       !.before = stack[p]]]]
        /\ UNCHANGED <<grammar, convert, rootnode>>

\* Parser.setup(start): start is None or a nonterminal of the grammar.
setup(p, start) ==
    LET s       == IF start = None THEN grammar.start ELSE start[1]
        newnode == PNode(1, s, None, Some(<<>>))
        stk     == << Frame(s, 0, newnode) >>
    IN  /\ stack' = Store(stack, p, stk)
        /\ rootnode' = Store(rootnode, p, None)
        /\ ready' = Store(ready, p, TRUE)
        /\ obs' = [obs EXCEPT ![p] =
              [start |-> s, fed |-> <<>>, rets |-> <<>>,
               hist |-> << Event("setup", newnode, TRUE, stk) >>,
               nextId |-> 2,
               prev |-> Phase(ready[p], obs[p].rets),
               last |-> [NoCall EXCEPT !.op = "setup", !.tok = start,
                                       !.before = stack[p]]]]
        /\ UNCHANGED <<grammar, convert>>

\* Parser.addtoken(typ, opaque, ilabel): the whole call, one step.  r is the
\* outcome of the call (AttributeError when setup has not created self.stack).
addtoken(p, ilabel) ==
    LET o   == obs[p]
        tok == Token(grammar, ilabel, Len(o.fed) + 1)
        m   == [stack |-> stack[p], rootnode |-> rootnode[p],
                nextId |-> o.nextId, hist |-> o.hist]
    IN  \E r \in {IF ready[p]
               THEN addtokenLoop(grammar, convert[p], m,
                                 tok.typ, tok.opaque, tok.ilabel, 1)
               ELSE Outcome(m, "AttributeError", None, 0, None)} :
        /\ stack' = Store(stack, p, r.m.stack)
        /\ rootnode' = Store(rootnode, p, r.m.rootnode)
        /\ obs' = [obs EXCEPT ![p] =
              [o EXCEPT !.fed = Append(@, tok),
                        !.rets = Append(@, r.ret),
                        !.hist = r.m.hist,
                        !.nextId = r.m.nextId,
                        !.last = [op |-> "addtoken", tok |-> Some(tok),
                                  ret |-> r.ret, exc |-> r.exc,
                                  from |-> Len(o.hist), iters |-> r.iters,
                                  final |-> r.final, before |-> stack[p]]]]
        /\ UNCHANGED <<grammar, convert, ready>>

StartArgs == {None} \cup {Some(nt) : nt \in DOMAIN grammar.dfas}

\* One parser, used by one caller.
Next ==
    \/ \E start \in StartArgs : setup(1, start)
    \/ \E ilabel \in TokenLabels(grammar) :
          /\ Len(obs[1].fed) < MaxTokens
          /\ addtoken(1, ilabel)

Spec == Init /\ [][Next]_vars

\* Two parsers bound to the same grammar, their calls interleaved; both are
\* set up with the default start symbol before they are fed.
NextTwo ==
    \/ \E p \in Procs : setup(p, None)
    \/ \E p \in Procs : \E ilabel \in TokenLabels(grammar) :
          /\ ready[p]
          /\ Len(obs[p].fed) < MaxTokensTwo
          /\ addtoken(p, ilabel)

\* The two parsers share one of the first three grammars and are constructed
\* with the identity callback or a discarding one.
InitTwo ==
    /\ Init
    /\ grammar \in {GrammarS, GrammarPass, GrammarOpt}
    /\ convert[1].kind \in {"identity", "discard"}

SpecTwo == InitTwo /\ [][NextTwo]_vars

\* ============================================================ properties
\* Helpers of the properties.

\* The labels of the tokens fed to parser p since its last setup.
FedLabels(p) == [i \in DOMAIN obs[p].fed |-> obs[p].fed[i].ilabel]

\* The structure of a tree: node types and the order of children.
RECURSIVE Shape(_)
Shape(n) ==
    IF n.children = None THEN <<n.typ>>
    ELSE <<n.typ, [i \in DOMAIN n.children[1] |-> Shape(n.children[1][i])]>>

\* All the nodes of a tree.
RECURSIVE NodesOf(_)
NodesOf(n) ==
    IF n.children = None THEN {n}
    ELSE {n} \cup UNION {NodesOf(n.children[1][i]) : i \in DOMAIN n.children[1]}

IsPrefix(s, t) == Len(s) <= Len(t) /\ s = SubSeq(t, 1, Len(s))

\* The events of the last call on parser p.
LastEvents(p) ==
    SubSeq(obs[p].hist, obs[p].last.from + 1, Len(obs[p].hist))

\* --------------------------------------------------------------------- C1
\* C1: in the grammar S -> 'a' S 'b' | 'c' with the identity conversion, the
\* tokens a a c b b, fed one per call after setup, return False four times and
\* True on the final b, and the root is then S(a, S(a, S(c), b), b).
C1_Scenario ==
    \A p \in Procs :
        (/\ grammar = GrammarS
         /\ convert[p].kind = "identity"
         /\ ready[p]
         /\ IsPrefix(FedLabels(p), <<1, 1, 3, 2, 2>>))
        => /\ IsPrefix(obs[p].rets,
                       <<"False", "False", "False", "False", "True">>)
           /\ Len(obs[p].rets) = Len(obs[p].fed)
           /\ Len(obs[p].fed) = 5 =>
                /\ rootnode[p] # None
                /\ Shape(rootnode[p][1]) =
                     <<256, << <<11>>,
                               <<256, << <<11>>,
                                         <<256, << <<13>> >> >>,
                                         <<12>> >> >>,
                               <<12>> >> >>

C1_Witness ==
    /\ grammar = GrammarS
    /\ convert[1].kind = "identity"
    /\ FedLabels(1) = <<1, 1, 3, 2, 2>>
    /\ obs[1].last.ret = "True"

\* --------------------------------------------------------------------- C2
\* C2: in the grammar S -> 'a' S 'b' | 'c', the tokens c c make the second
\* call raise ParseError "too much input" with the second c's type and payload.
C2_TooMuchInput ==
    \A p \in Procs :
        (grammar = GrammarS /\ ready[p] /\ FedLabels(p) = <<3, 3>>)
        => /\ obs[p].rets = <<"True", "too much input">>
           /\ obs[p].last.exc = ParseError("too much input", 13, 2)

\* --------------------------------------------------------------------- C3
\* C3: once addtoken has raised a parse error, every further addtoken call
\* before the next setup is rejected with an error, leaves the stack as it
\* was and does not return.
IsAddtoken(p) == Len(obs[p].fed') = Len(obs[p].fed) + 1

C3_FailedRejects ==
    [][\A p \in Procs :
          (Phase(ready[p], obs[p].rets) = "failed" /\ IsAddtoken(p))
          => /\ obs[p].last.ret' \notin {"True", "False"}
             /\ stack[p]' = stack[p]]_vars

\* --------------------------------------------------------------------- C4
\* C4: between one setup and the next, addtoken returns True on one call only,
\* every call before it returned False, and a call returns True exactly when
\* it shifted its token and the stack became empty.
ShiftedInLastCall(p) ==
    \E i \in DOMAIN LastEvents(p) : LastEvents(p)[i].kind = "shift"

C4_CompletionFlag ==
    \A p \in Procs :
        ready[p] =>
        LET rets == obs[p].rets
        IN  /\ \A i \in DOMAIN rets :
                 rets[i] = "True" =>
                    /\ \A j \in 1..(i - 1) : rets[j] = "False"
                    /\ \A j \in DOMAIN rets : j # i => rets[j] # "True"
            /\ obs[p].last.op = "addtoken" =>
                 (obs[p].last.ret = "True"
                    <=> (ShiftedInLastCall(p) /\ stack[p] = <<>>))

\* --------------------------------------------------------------------- C5
\* C5: whatever state setup is called in, it leaves exactly one frame (the
\* start symbol's DFA, state 0, a fresh start-symbol node without children)
\* and no result; and a parser that was set up again after earlier use is,
\* after any token sequence, in the state of a parser that was set up once
\* and fed the same sequence: same returns, same stack, same tree.
FreshFrame(f, start) ==
    /\ f.dfa = start
    /\ f.state = 0
    /\ f.node.typ = start
    /\ f.node.tok = None
    /\ f.node.children = Some(<<>>)

SetUpOnce(p) == ready[p] /\ obs[p].prev = "uninitialized"

C5_SetupResets ==
    /\ \A p \in Procs :
          obs[p].last.op = "setup" =>
             /\ Len(stack[p]) = 1
             /\ FreshFrame(stack[p][1],
                           IF obs[p].last.tok = None THEN grammar.start
                           ELSE obs[p].last.tok[1])
             /\ rootnode[p] = None
    /\ \A p, q \in Procs :
          (/\ ready[p] /\ ~SetUpOnce(p)
           /\ SetUpOnce(q)
           /\ FedLabels(p) = FedLabels(q))
          => /\ obs[p].rets = obs[q].rets
             /\ stack[p] = stack[q]
             /\ rootnode[p] = rootnode[q]

\* A parser reused after a parse error and a parser set up once have both
\* completed the same non-empty token sequence.
C5_Witness ==
    /\ obs[1].prev = "failed"
    /\ SetUpOnce(2)
    /\ obs[1].fed # <<>>
    /\ FedLabels(1) = FedLabels(2)
    /\ obs[1].last.ret = "True"
    /\ obs[2].last.ret = "True"
    /\ rootnode[1] # None

\* --------------------------------------------------------------------- C6
\* C6: addtoken raises ParseError "bad input" exactly when, at the top frame
\* its last iteration looks at, no arc carries the token's label, no
\* nonterminal arc has the label in its first set and the state has no accept
\* marker; the error carries the token's type and payload; and in the grammar
\* S -> 'a' S 'b' | 'c' the tokens a b raise it on the b.
Stuck(g, dfa, state, ilabel) ==
    LET arcs == g.dfas[dfa].states[state]
    IN  /\ \A i \in DOMAIN arcs :
              /\ arcs[i][1] # ilabel
              /\ ~ (/\ g.labels[arcs[i][1]] >= 256
                    /\ ilabel \in g.dfas[g.labels[arcs[i][1]]].first)
        /\ \A i \in DOMAIN arcs : arcs[i] # <<0, state>>

C6_BadInput ==
    \A p \in Procs :
        LET l == obs[p].last
        IN  /\ (l.op = "addtoken" /\ l.final # None) =>
                 /\ l.ret = "bad input"
                      <=> Stuck(grammar, l.final[1].dfa, l.final[1].state,
                                l.tok[1].ilabel)
                 /\ l.ret = "bad input" =>
                      /\ l.exc = Some([msg |-> "bad input",
                                       type |-> l.tok[1].typ,
                                       opaque |-> l.tok[1].opaque])
                      /\ l.final[1].dfa = Top(stack[p]).dfa
                      /\ l.final[1].state = Top(stack[p]).state
            /\ (grammar = GrammarS /\ ready[p] /\ FedLabels(p) = <<1, 2>>) =>
                 obs[p].rets = <<"False", "bad input">>

\* "bad input" raised at the frame the call reached by popping another.
C6_Witness ==
    /\ obs[1].last.ret = "bad input"
    /\ \E i \in DOMAIN LastEvents(1) : LastEvents(1)[i].kind = "pop"

\* --------------------------------------------------------------------- C7
\* C7: when a parse has run to completion, the conversion callback has been
\* invoked exactly once for every node created since setup (the root, every
\* pushed node, every shifted leaf) and for nothing else; each invocation
\* comes after the invocations for all children of its node; and the node it
\* is given is final (with the identity callback it is, unchanged, a node of
\* the result).
EventsOfKind(p, kinds) ==
    LET Is(e) == e.kind \in kinds
    IN  SelectSeq(obs[p].hist, Is)

C7_ConvertOncePerNode ==
    \A p \in Procs :
        "True" \in Range(obs[p].rets) =>
        LET cs == EventsOfKind(p, {"convert"})
            cr == EventsOfKind(p, {"setup", "push", "shift"})
        IN  /\ Len(cs) = Len(cr)
            /\ \A i \in DOMAIN cr :
                 Cardinality({j \in DOMAIN cs :
                                 cs[j].node.id = cr[i].node.id}) = 1
            /\ \A i \in DOMAIN cs :
                 cs[i].node.children # None =>
                    \A k \in DOMAIN cs[i].node.children[1] :
                       \E j \in 1..(i - 1) :
                          cs[j].node.id = cs[i].node.children[1][k].id
            /\ (convert[p].kind = "identity" /\ rootnode[p] # None) =>
                 \A i \in DOMAIN cs : cs[i].node \in NodesOf(rootnode[p][1])

\* A completed parse with a nonterminal nested in a nonterminal.
C7_Witness ==
    /\ obs[1].last.ret = "True"
    /\ Len(EventsOfKind(1, {"push"})) >= 2
    /\ Len(EventsOfKind(1, {"shift"})) >= 3

\* --------------------------------------------------------------------- C8
\* C8: with a callback that discards every node of one type and returns every
\* other node unchanged, no node of that type and no node of a discarded
\* subtree is ever a child of a node on the stack or a node of the result.
ConvertedAway(p) ==
    {e.node : e \in {x \in Range(obs[p].hist) :
                        x.kind = "convert" /\ ~x.kept}}

DiscardedIds(p) ==
    UNION {{n.id : n \in NodesOf(d)} : d \in ConvertedAway(p)}

\* The nodes attached to a parent on the stack, and the nodes of the result.
Attached(p) ==
    UNION ({NodesOf(stack[p][i].node) \ {stack[p][i].node} :
               i \in DOMAIN stack[p]}
           \cup {NodesOf(rootnode[p][i]) : i \in DOMAIN rootnode[p]})

C8_DiscardSemantics ==
    \A p \in Procs :
        (ready[p] /\ convert[p].kind = "discard") =>
           \A n \in Attached(p) :
              /\ n.typ # convert[p].typ
              /\ n.id \notin DiscardedIds(p)

\* A completed parse in which a whole subtree was discarded below the root.
C8_Witness ==
    /\ convert[1].kind = "discard"
    /\ obs[1].last.ret = "True"
    /\ rootnode[1] # None
    /\ \E d \in ConvertedAway(1) : Cardinality(NodesOf(d)) >= 3

\* --------------------------------------------------------------------- C9
\* C9: an addtoken call that returns has shifted exactly once, creating one
\* leaf with the type and payload of its token, whatever it pushed and popped;
\* a call that raises has shifted nothing.  So, with the identity callback,
\* the leaves held by the stack and the result are, left to right, the tokens of the
\* calls that returned, in order.
Returned(ret) == ret \in {"True", "False"}

\* The leaves of a tree, and of a sequence of trees, left to right.
RECURSIVE LeavesOf(_), LeavesOfAll(_)
LeavesOf(n) ==
    IF n.children = None THEN <<n>> ELSE LeavesOfAll(n.children[1])

LeavesOfAll(ns) ==
    IF ns = <<>> THEN <<>> ELSE LeavesOf(Head(ns)) \o LeavesOfAll(Tail(ns))

\* The leaves held by the stack (bottom frame first) and by the result.
HeldLeaves(p) ==
    LeavesOfAll(rootnode[p] \o [i \in DOMAIN stack[p] |-> stack[p][i].node])

ReturnedTokens(p) ==
    LET Ok(i) == Returned(obs[p].rets[i])
        idx   == SelectSeq([i \in DOMAIN obs[p].fed |-> i], Ok)
    IN  [k \in DOMAIN idx |-> obs[p].fed[idx[k]]]

C9_OneShiftPerCall ==
    \A p \in Procs :
        LET l  == obs[p].last
            sh == {i \in DOMAIN LastEvents(p) : LastEvents(p)[i].kind = "shift"}
        IN  /\ l.op = "addtoken" =>
                 /\ Returned(l.ret) =>
                      /\ Cardinality(sh) = 1
                      /\ \A i \in sh :
                            LastEvents(p)[i].node =
                               [id |-> LastEvents(p)[i].node.id,
                                typ |-> l.tok[1].typ,
                                tok |-> Some(l.tok[1].opaque),
                                children |-> None]
                 /\ ~Returned(l.ret) => sh = {}
            /\ (ready[p] /\ convert[p].kind = "identity") =>
                 [i \in DOMAIN HeldLeaves(p) |->
                     <<HeldLeaves(p)[i].typ, HeldLeaves(p)[i].tok[1]>>]
                    = [i \in DOMAIN ReturnedTokens(p) |->
                         <<ReturnedTokens(p)[i].typ, ReturnedTokens(p)[i].opaque>>]

\* A call that pushed and popped around its one shift.
C9_Witness ==
    /\ Returned(obs[1].last.ret)
    /\ \E i, j \in DOMAIN LastEvents(1) :
          /\ LastEvents(1)[i].kind = "push"
          /\ LastEvents(1)[j].kind = "pop"
    /\ convert[1].kind = "identity"

\* -------------------------------------------------------------------- C10
\* C10: with two parsers on one grammar and their calls interleaved in any
\* order, each parser's returns, errors, stack and tree are those of the same
\* calls made on a parser running alone; no call changes the grammar tables,
\* and a call on one parser leaves the other parser's stack and result alone.

\* A parser running alone: setup(start), then the tokens one by one.
RECURSIVE RunAlone(_, _, _, _, _)
RunAlone(g, cv, m, rets, toks) ==
    IF toks = <<>> THEN [stack |-> m.stack, rootnode |-> m.rootnode, rets |-> rets]
    ELSE LET r == addtokenLoop(g, cv, m, toks[1].typ, toks[1].opaque,
                               toks[1].ilabel, 1)
         IN  RunAlone(g, cv, r.m, Append(rets, r.ret), Tail(toks))

AfterSetup(start) ==
    [stack |-> << Frame(start, 0, PNode(1, start, None, Some(<<>>))) >>,
     rootnode |-> None, nextId |-> 2, hist |-> <<>>]

AsAlone(p) ==
    ready[p] =>
       [stack |-> stack[p], rootnode |-> rootnode[p], rets |-> obs[p].rets]
          = RunAlone(grammar, convert[p], AfterSetup(obs[p].start), <<>>,
                     obs[p].fed)

Untouched(p) ==
    obs[p]' = obs[p] =>
       /\ stack[p]' = stack[p]
       /\ rootnode[p]' = rootnode[p]
       /\ ready[p]' = ready[p]

C10_Isolation ==
    /\ [](\A p \in Procs : AsAlone(p))
    /\ [][grammar' = grammar /\ \A p \in Procs : Untouched(p)]_vars

\* Both parsers have been fed, each its own input, and are in different states.
C10_Witness ==
    /\ Len(obs[1].fed) = MaxTokensTwo
    /\ Len(obs[2].fed) = MaxTokensTwo
    /\ FedLabels(1) # FedLabels(2)
    /\ Returned(obs[1].last.ret)
    /\ Returned(obs[2].last.ret)
    /\ stack[1] # stack[2]

\* -------------------------------------------------------------------- C11
\* The pushes and the pops of the last call on parser p.
CountKind(p, kind) ==
    Cardinality({i \in DOMAIN LastEvents(p) : LastEvents(p)[i].kind = kind})

\* The depth of a grammar: no chain of distinct nested nonterminals is longer
\* than the number of its nonterminals.
GrammarDepth(g) == Cardinality(DOMAIN g.dfas)

\* C11 as claimed: the pushes and pops of one addtoken call are bounded by the
\* grammar's depth alone (at most depth pushes going down and depth pops
\* coming up, plus the pop of the root frame), however many tokens were fed.
C11_GrammarBound ==
    \A p \in Procs :
        obs[p].last.op = "addtoken" =>
           CountKind(p, "push") + CountKind(p, "pop")
              <= 2 * GrammarDepth(grammar) + 1

\* C11 as amended: every addtoken call ends; its pushes are bounded by the
\* grammar's depth; every push adds one frame and every pop removes one, so
\* its pops are bounded by the depth of the stack at the call plus its pushes
\* (not by the grammar); the outer loop runs at most once per push and pop,
\* and once more.
C11_StackBound ==
    \A p \in Procs :
        LET l == obs[p].last
        IN  (l.op = "addtoken" /\ ready[p]) =>
               /\ l.ret \in {"True", "False", "bad input", "too much input",
                             "IndexError"}
               /\ CountKind(p, "push") <= GrammarDepth(grammar)
               /\ Len(stack[p]) =
                     Len(l.before) + CountKind(p, "push") - CountKind(p, "pop")
               /\ CountKind(p, "pop") <= Len(l.before) + CountKind(p, "push")
               /\ l.iters <= CountKind(p, "push") + CountKind(p, "pop") + 1

\* A call that popped more frames than the grammar's depth allows for.
C11_Witness ==
    /\ obs[1].last.op = "addtoken"
    /\ CountKind(1, "push") + CountKind(1, "pop") > 2 * GrammarDepth(grammar) + 1
    /\ CountKind(1, "pop") = Len(obs[1].last.before) + CountKind(1, "push")

\* -------------------------------------------------------------------- C12
\* The interior (nonterminal) nodes of a tree, as (id, type) pairs.
InteriorOf(n) ==
    {<<x.id, x.typ>> : x \in {y \in NodesOf(n) : y.children # None}}

\* The nodes created by setup and push since setup, as (id, type) pairs.
CreatedNonterminals(p) ==
    {<<obs[p].hist[i].node.id, obs[p].hist[i].node.typ>> :
        i \in {j \in DOMAIN obs[p].hist :
                  obs[p].hist[j].kind \in {"setup", "push"}}}

\* C12: with the default (identity) callback, when addtoken returns True the
\* root is the concrete syntax tree: its leaves, left to right, are the (type,
\* payload) pairs of all the tokens fed since setup, in order and once each,
\* and its interior nodes are the nodes created by setup and push.
C12_ConcreteTree ==
    \A p \in Procs :
        (obs[p].last.ret = "True" /\ convert[p].kind = "identity") =>
           /\ rootnode[p] # None
           /\ [i \in DOMAIN LeavesOf(rootnode[p][1]) |->
                  <<LeavesOf(rootnode[p][1])[i].typ,
                    LeavesOf(rootnode[p][1])[i].tok[1]>>]
                 = [i \in DOMAIN obs[p].fed |->
                      <<obs[p].fed[i].typ, obs[p].fed[i].opaque>>]
           /\ InteriorOf(rootnode[p][1]) = CreatedNonterminals(p)

\* -------------------------------------------------------------------- C13
\* A tree without the creation numbers of its nodes.
RECURSIVE Strip(_)
Strip(n) ==
    [typ |-> n.typ, tok |-> n.tok,
     children |-> IF n.children = None THEN None
                  ELSE Some([i \in DOMAIN n.children[1] |->
                                Strip(n.children[1][i])])]

StripOpt(r) == IF r = None THEN None ELSE Some(Strip(r[1]))

\* The same tokens parsed alone with the flattened grammar S -> 'a' S 'b' | 'c'
\* of GrammarMid (S -> 'a' P 'b' | 'c' ; P -> S).
Flattened(p) ==
    RunAlone(GrammarS, convert[p], AfterSetup(GrammarS.start), <<>>, obs[p].fed)

WithPassThrough(p) ==
    /\ grammar = GrammarMid
    /\ ready[p]
    /\ obs[p].start = GrammarMid.start

SomeCall(p, outcomes) == \E i \in DOMAIN obs[p].rets : obs[p].rets[i] \in outcomes

\* The pops of the start symbol's node (the node setup created) since setup.
RootPops(p) ==
    {i \in DOMAIN obs[p].hist :
        obs[p].hist[i].kind = "pop" /\ obs[p].hist[i].node.id = 1}

\* The result is what the callback returned for the start symbol's node.
HoldsConvertedRoot(p) ==
    /\ Cardinality(RootPops(p)) = 1
    /\ \A i \in RootPops(p) :
          /\ obs[p].hist[i].node.typ = obs[p].start
          /\ rootnode[p] = Convert(convert[p], grammar, obs[p].hist[i].node)

\* C14 as claimed: from setup on, rootnode stays absent as long as no
\* addtoken call has returned True, also after a call that raised a parse
\* error; once a call has returned True it holds what the callback returned
\* for the start symbol's node.
C14_AbsentUntilTrue ==
    \A p \in Procs :
        ready[p] =>
           /\ ~SomeCall(p, {"True"}) => rootnode[p] = None
           /\ SomeCall(p, {"True"}) => HoldsConvertedRoot(p)

\* C14 as amended: rootnode stays absent as long as no call has returned True
\* or raised "too much input"; after either it holds what the callback
\* returned for the start symbol's node.
C14_AbsentUntilRootPopped ==
    \A p \in Procs :
        ready[p] =>
           /\ ~SomeCall(p, {"True", "too much input"}) =>
                 rootnode[p] = None /\ RootPops(p) = {}
           /\ SomeCall(p, {"True", "too much input"}) => HoldsConvertedRoot(p)

\* "too much input" has left a result although no call returned True.
C14_Witness ==
    /\ ready[1]
    /\ obs[1].last.ret = "too much input"
    /\ ~SomeCall(1, {"True"})
    /\ rootnode[1] # None
    /\ convert[1].kind = "identity"
    /\ Len(obs[1].fed) > 2

\* -------------------------------------------------------------------- C15
\* The steps (setup, push, shift, pop) recorded since setup, and those of the
\* last call.
Steps(p) == {i \in DOMAIN obs[p].hist : obs[p].hist[i].kind # "convert"}

CallSteps(p) == {i \in Steps(p) : i > obs[p].last.from}

Latest(S) == CHOOSE i \in S : \A j \in S : j <= i

Earliest(S) == CHOOSE i \in S : \A j \in S : i <= j

\* The stack a step found.
StackBefore(p, i) == obs[p].hist[Latest({j \in Steps(p) : j < i})].stack

\* Step i of the last call comes before the call's shift.
PreShift(p, i) ==
    \A j \in CallSteps(p) : obs[p].hist[j].kind = "shift" => i < j

\* The step that follows the stack of index k, if the last call has one.
Following(p, k) == {j \in CallSteps(p) : j > k /\ \A h \in CallSteps(p) : h > k => j <= h}

\* No arc of the frame's state applies to the label; the state has the marker.
NoArcFor(g, f, ilabel) ==
    \A a \in Range(g.dfas[f.dfa].states[f.state]) :
        /\ a[1] # ilabel
        /\ ~ (g.labels[a[1]] >= NT_OFFSET /\ ilabel \in g.dfas[g.labels[a[1]]].first)

HasAcceptMarker(g, f) == <<0, f.state>> \in Range(g.dfas[f.dfa].states[f.state])

\* The places of the last call where the loop looked at the top frame before
\* the shift: its start, and after each push and pop that came before the shift.
\* Each is the index of the step that left the stack.
Decisions(p) ==
    {obs[p].last.from} \cup
    {i \in CallSteps(p) : obs[p].hist[i].kind \in {"push", "pop"} /\ PreShift(p, i)}

\* C15: when no arc of the top frame's state applies to the token and the
\* state has an accept marker, addtoken pops that frame, consuming nothing,
\* and tries the same label on the new top frame; "too much input" is raised
\* exactly when such a pop empties the stack, and then the token is in no node.
C15_AcceptPopRetry ==
    \A p \in Procs :
        LET l  == obs[p].last
            h  == obs[p].hist
            il == l.tok[1].ilabel
        IN  (ready[p] /\ l.op = "addtoken") =>
            /\ \A k \in Decisions(p) :
                 LET s == h[k].stack
                     n == Following(p, k)
                 IN  s # <<>> =>
                     /\ (NoArcFor(grammar, Top(s), il)
                            /\ HasAcceptMarker(grammar, Top(s))) =>
                           /\ n # {}
                           /\ \A j \in n :
                                 /\ h[j].kind = "pop"
                                 /\ h[j].node.id = Top(s).node.id
                                 /\ Len(h[j].stack) = Len(s) - 1
                     /\ \A j \in n :
                           h[j].kind = "pop" =>
                              /\ NoArcFor(grammar, Top(s), il)
                              /\ HasAcceptMarker(grammar, Top(s))
                     /\ \A j \in n :
                           h[j].kind = "shift" =>
                              \E a \in Range(grammar.dfas[Top(s).dfa].states[Top(s).state]) :
                                  /\ a[1] = il
                                  /\ Top(h[j].stack).state = a[2]
                                  /\ h[j].node.tok = Some(l.tok[1].opaque)
                     /\ \A j \in n :
                           h[j].kind = "push" =>
                              \E a \in Range(grammar.dfas[Top(s).dfa].states[Top(s).state]) :
                                  /\ grammar.labels[a[1]] = h[j].node.typ
                                  /\ il \in grammar.dfas[h[j].node.typ].first
                     /\ n = {} =>
                           /\ l.ret = "bad input"
                           /\ Stuck(grammar, Top(s).dfa, Top(s).state, il)
            /\ l.ret = "too much input" <=>
                  \E i \in CallSteps(p) :
                      /\ h[i].kind = "pop"
                      /\ PreShift(p, i)
                      /\ h[i].stack = <<>>
            /\ l.ret = "too much input" =>
                  /\ \A i \in CallSteps(p) : h[i].kind = "pop"
                  /\ stack[p] = <<>>
                  /\ l.exc = ParseError("too much input", l.tok[1].typ,
                                        l.tok[1].opaque)
                  /\ rootnode[p] # None =>
                        \A x \in NodesOf(rootnode[p][1]) :
                            x.tok # Some(l.tok[1].opaque)

\* A token that made an accepting frame pop and was then shifted by the frame
\* below, followed by a token that emptied the stack: "too much input".
C15_Witness ==
    /\ ready[1]
    /\ obs[1].last.ret = "too much input"
    /\ rootnode[1] # None
    /\ \E i, j \in Steps(1) :
          /\ i < j
          /\ j <= obs[1].last.from
          /\ obs[1].hist[i].kind = "pop"
          /\ obs[1].hist[j].kind = "shift"
          /\ \A k \in Steps(1) : ~(i < k /\ k < j)
          /\ Len(grammar.dfas[Top(StackBefore(1, i)).dfa]
                     .states[Top(StackBefore(1, i)).state]) > 1

\* -------------------------------------------------------------------- C16
\* The pushes since setup, and the pops of the node a push created.
PushSteps(p) == {i \in Steps(p) : obs[p].hist[i].kind = "push"}

PopsOf(p, i) ==
    {j \in Steps(p) : /\ obs[p].hist[j].kind = "pop"
                      /\ obs[p].hist[j].node.id = obs[p].hist[i].node.id}

\* The nonterminal arcs of the frame's state that a push for the label and the
\* pushed type can have come from.
PushArcs(g, f, typ, ilabel) ==
    {a \in Range(g.dfas[f.dfa].states[f.state]) :
        /\ g.labels[a[1]] = typ
        /\ ilabel \in g.dfas[typ].first}

\* C16: a push for a nonterminal arc (label, next_state) changes only the state
\* of the top frame, to next_state, and puts on top a frame with the
\* nonterminal's DFA, state 0 and a new node without children; the frames below
\* and all children lists stay as they were.  When the pushed frame is popped,
\* the parent frame is in that next_state, and the converted node, if the
\* callback kept it, is the last child of the parent's node.
C16_PushFrameEffect ==
    \A p \in Procs :
        ready[p] =>
        \A i \in PushSteps(p) :
            LET h      == obs[p].hist
                before == StackBefore(p, i)
                after  == h[i].stack
                n      == Len(before)
                new    == h[i].node
                il     == obs[p].fed[new.tok[1]].ilabel
            IN  /\ n >= 1
                /\ Len(after) = n + 1
                /\ SubSeq(after, 1, n - 1) = SubSeq(before, 1, n - 1)
                /\ after[n].dfa = before[n].dfa
                /\ after[n].node = before[n].node
                /\ \E a \in PushArcs(grammar, before[n], new.typ, il) :
                       after[n].state = a[2]
                /\ after[n + 1] = Frame(new.typ, 0, new)
                /\ new.children = Some(<<>>)
                /\ \A k \in 1..n : new.id \notin {x.id : x \in NodesOf(before[k].node)}
                /\ \A j \in PopsOf(p, i) :
                      LET found  == StackBefore(p, j)
                          left   == h[j].stack
                          parent == Top(left)
                          conv   == Convert(convert[p], grammar, h[j].node)
                      IN  /\ j > i
                          /\ Len(left) = n
                          /\ SubSeq(left, 1, n - 1) = SubSeq(found, 1, n - 1)
                          /\ parent.dfa = after[n].dfa
                          /\ parent.state = after[n].state
                          /\ parent.node.id = after[n].node.id
                          /\ conv # None =>
                                parent.node = AppendChild(found[n].node, conv[1])
                          /\ conv = None => parent.node = found[n].node

\* A frame pushed under a node that had children already was popped, its node
\* kept, and the parent went on from the arc's next state.
C16_Witness ==
    /\ ready[1]
    /\ \E i \in PushSteps(1) :
          /\ StackBefore(1, i)[Len(StackBefore(1, i))].node.children[1] # <<>>
          /\ Top(StackBefore(1, i)).state # obs[1].hist[i].stack[Len(StackBefore(1, i))].state
          /\ \E j \in PopsOf(1, i) :
                /\ obs[1].hist[j].kept
                /\ Len(Top(obs[1].hist[j].stack).node.children[1]) >= 2
                /\ Len(obs[1].hist[j].stack) >= 2

\* -------------------------------------------------------------------- C17
\* The state of the frame has the accept marker as its only arc.
AcceptOnly(g, f) == g.dfas[f.dfa].states[f.state] = << <<0, f.state>> >>

\* The shift of the last call and the pops that came after it.
FromShift(p) ==
    {i \in CallSteps(p) :
        \E j \in CallSteps(p) : obs[p].hist[j].kind = "shift" /\ j <= i}

\* C17: after the shift, addtoken pops frames as long as the top frame's state
\* has the accept marker as its only arc and stops at the first frame whose
\* state has another arc, returning False, or at the empty stack, returning
\* True.  So when addtoken returns False the stack is not empty and the top
\* frame's state is not accept-only, and a state with the marker and another
\* arc is not popped after a shift.
C17_PopWhileAcceptOnly ==
    \A p \in Procs :
        LET l == obs[p].last
            h == obs[p].hist
        IN  (ready[p] /\ l.op = "addtoken") =>
            /\ \A k \in FromShift(p) :
                 LET s == h[k].stack
                     n == Following(p, k)
                 IN  /\ (s # <<>> /\ AcceptOnly(grammar, Top(s))) =>
                           /\ n # {}
                           /\ \A j \in n :
                                 /\ h[j].kind = "pop"
                                 /\ h[j].node.id = Top(s).node.id
                                 /\ Len(h[j].stack) = Len(s) - 1
                     /\ (s # <<>> /\ ~AcceptOnly(grammar, Top(s))) =>
                           /\ n = {}
                           /\ l.ret = "False"
                     /\ s = <<>> =>
                           /\ n = {}
                           /\ l.ret = "True"
            /\ l.ret = "False" =>
                  /\ FromShift(p) # {}
                  /\ stack[p] # <<>>
                  /\ ~AcceptOnly(grammar, Top(stack[p]))
            /\ l.ret = "True" => FromShift(p) # {} /\ stack[p] = <<>>

\* After a call that popped an accept-only frame after its shift, a call
\* returned False with the top frame in a state that has the accept marker and
\* another arc.
C17_Witness ==
    /\ ready[1]
    /\ obs[1].last.ret = "False"
    /\ HasAcceptMarker(grammar, Top(stack[1]))
    /\ ~AcceptOnly(grammar, Top(stack[1]))
    /\ \E j \in Steps(1) :
          /\ obs[1].hist[j].kind = "pop"
          /\ AcceptOnly(grammar, Top(StackBefore(1, j)))
    /\ \A i \in DOMAIN obs[1].rets : obs[1].rets[i] = "False"

\* -------------------------------------------------------------------- C18
\* All the nodes a parser holds: in its frames and in its result.
HeldNodes(p) ==
    UNION {NodesOf(stack[p][i].node) : i \in DOMAIN stack[p]}
       \cup (IF rootnode[p] = None THEN {} ELSE NodesOf(rootnode[p][1]))

\* C18: every nonterminal node (the root made by setup, every node made by
\* push) has no payload; only the leaves made by shift carry a token's payload.
C18_NonterminalPayload ==
    \A p \in Procs :
        /\ \A x \in HeldNodes(p) :
              /\ x.children # None => x.tok = None
              /\ x.children = None => x.tok # None
        /\ \A i \in DOMAIN obs[p].hist :
              obs[p].hist[i].kind \in {"setup", "push"} =>
                 obs[p].hist[i].node.tok = None

\* -------------------------------------------------------------------- C19
\* The creation numbers of the nodes of a tree, and of the trees of a stack,
\* one entry per occurrence.
RECURSIVE IdsOf(_), IdsOfAll(_)
IdsOf(n) ==
    IF n.children = None THEN <<n.id>> ELSE <<n.id>> \o IdsOfAll(n.children[1])

IdsOfAll(ns) ==
    IF ns = <<>> THEN <<>> ELSE IdsOf(Head(ns)) \o IdsOfAll(Tail(ns))

NoDuplicates(s) == \A i, j \in DOMAIN s : s[i] = s[j] => i = j

\* C19: from setup until the call that returns True or raises "too much
\* input", the stack is well formed: it is not empty; its bottom frame is the
\* start symbol's; every frame's state is a state of its DFA; every frame's
\* node has the type of the frame's nonterminal and is not a leaf; no node is
\* owned by two frames or occurs twice in the tree.
C19_StackWellFormed ==
    \A p \in Procs :
        (ready[p] /\ ~SomeCall(p, {"True", "too much input"})) =>
           /\ stack[p] # <<>>
           /\ stack[p][1].dfa = obs[p].start
           /\ stack[p][1].node.id = 1
           /\ \A i \in DOMAIN stack[p] :
                 LET f == stack[p][i]
                 IN  /\ f.dfa \in DOMAIN grammar.dfas
                     /\ f.state \in DOMAIN grammar.dfas[f.dfa].states
                     /\ f.node.typ = f.dfa
                     /\ f.node.children # None
           /\ NoDuplicates(IdsOfAll([i \in DOMAIN stack[p] |-> stack[p][i].node]))

\* A deep stack whose frames hold subtrees, after a "bad input" error.
C19_Witness ==
    /\ ready[1]
    /\ ~SomeCall(1, {"True", "too much input"})
    /\ SomeCall(1, {"bad input"})
    /\ Len(stack[1]) >= 3
    /\ \E i, j \in DOMAIN stack[1] : stack[1][i].dfa # stack[1][j].dfa
    /\ Len(IdsOfAll([i \in DOMAIN stack[1] |-> stack[1][i].node])) >= 5

\* -------------------------------------------------------------------- C20
\* The arcs of the frame's state that could apply to the label: a token arc
\* with that label, or a nonterminal arc whose first set holds it.
Applicable(g, f, ilabel) ==
    LET arcs == g.dfas[f.dfa].states[f.state]
    IN  {i \in DOMAIN arcs :
            \/ arcs[i][1] = ilabel
            \/ /\ g.labels[arcs[i][1]] >= NT_OFFSET
               /\ ilabel \in g.dfas[g.labels[arcs[i][1]]].first}

\* C20: when several arcs of the current state could apply to the token,
\* addtoken takes the first of them in the state's arc order: an earlier
\* nonterminal arc pushes although a later token arc has the label, and an
\* earlier token arc shifts although a later nonterminal arc's first set holds
\* the label.
C20_FirstArcWins ==
    \A p \in Procs :
        LET l  == obs[p].last
            h  == obs[p].hist
            il == l.tok[1].ilabel
        IN  (ready[p] /\ l.op = "addtoken") =>
            \A k \in Decisions(p) :
                LET s    == h[k].stack
                    n    == Following(p, k)
                    arcs == grammar.dfas[Top(s).dfa].states[Top(s).state]
                    app  == Applicable(grammar, Top(s), il)
                    i0   == Earliest(app)
                IN  (s # <<>> /\ app # {}) =>
                       /\ n # {}
                       /\ \A j \in n :
                             /\ Len(h[j].stack) >= Len(s)
                             /\ h[j].stack[Len(s)].state = arcs[i0][2]
                             /\ arcs[i0][1] = il =>
                                   /\ h[j].kind = "shift"
                                   /\ Len(h[j].stack) = Len(s)
                             /\ arcs[i0][1] # il =>
                                   /\ h[j].kind = "push"
                                   /\ h[j].node.typ = grammar.labels[arcs[i0][1]]
                                   /\ Len(h[j].stack) = Len(s) + 1

\* One call met both cases: a push by an earlier nonterminal arc with a later
\* matching token arc, then a shift by an earlier token arc with a later
\* nonterminal arc whose first set holds the label.
C20_Witness ==
    /\ ready[1]
    /\ obs[1].last.op = "addtoken"
    /\ \E k1, k2 \in Decisions(1) :
          LET il   == obs[1].last.tok[1].ilabel
              s1   == obs[1].hist[k1].stack
              s2   == obs[1].hist[k2].stack
              a1   == grammar.dfas[Top(s1).dfa].states[Top(s1).state]
              a2   == grammar.dfas[Top(s2).dfa].states[Top(s2).state]
          IN  /\ s1 # <<>> /\ s2 # <<>>
              /\ Cardinality(Applicable(grammar, Top(s1), il)) >= 2
              /\ Cardinality(Applicable(grammar, Top(s2), il)) >= 2
              /\ a1[Earliest(Applicable(grammar, Top(s1), il))][1] # il
              /\ \E i \in Applicable(grammar, Top(s1), il) : a1[i][1] = il
              /\ a2[Earliest(Applicable(grammar, Top(s2), il))][1] = il
              /\ \E j \in Following(1, k1) : obs[1].hist[j].kind = "push"
              /\ \E j \in Following(1, k2) : obs[1].hist[j].kind = "shift"

====
